---- MODULE Spec2Model ----
(***************************************************************************)
(* Retrieval-and-segmentation core of insight-lookinsight: the rate-limit  *)
(* aware fetcher (_request_html), the document locator                     *)
(* (find_filing_document), the download_filing pipeline and the item       *)
(* segmenter (ItemExtractor).                                              *)
(*                                                                         *)
(* Text is a sequence of characters (one-character strings; a few          *)
(* multi-letter strings name single non-ASCII characters).  Offsets are    *)
(* Python offsets: 0-based, slices are half-open.                          *)
(***************************************************************************)
EXTENDS Integers, Sequences, FiniteSets, TLC

VARIABLES
    pc,          \* position of the pipeline / of the running call
    filing,      \* the Filing record being processed
    call,        \* which fetch is running: "index" or "doc"
    attempt,     \* _request_html: loop variable `attempt` (0-based)
    permits,     \* sec_edgar_limiter.acquire() calls made by the running fetch
    requests,    \* requests.get calls made by the running fetch
    sleeps,      \* time.sleep calls of the running fetch: after what, how long
    response,    \* the response of the last requests.get of the running fetch
    fetched,     \* how the running fetch ended: value returned or error raised
    index_url,   \* download_filing: index_url
    doc_url,     \* download_filing: doc_url
    html,        \* download_filing: html
    text,        \* extract_all_items: text
    items_list,  \* extract_all_items: items_list
    i,           \* extract_all_items: loop index into items_list (1-based)
    last_pos,    \* extract_all_items: last_pos
    results,     \* the ExtractedItem values parse_item returned, in order
    extracted,   \* extract_all_items: the dict `extracted`, key -> content
    outcome,     \* what the caller of the pipeline receives
    soup,        \* remove_numeric_tables: the tables of the soup
    cancelled,   \* the job of the running pipeline has been cancelled
    lifecycle,   \* the analysis page: "none", "shown", or how it was left
    async,       \* where the page's startAnalysis() is: "start", "status", "done"
    cleanup,     \* the effect's variable `cleanup` holds a function
    eventSource, \* the EventSource of the subscription: "none", "open", "closed"
    onCancelled, \* the subscriber passed an onCancelled callback
    jobIdRef,    \* jobIdRef.current
    isCompletedRef, \* isCompletedRef.current
    isLoading,   \* the page's state isLoading
    error,       \* the page's state error
    pageResult,  \* the page's state result
    stages,      \* the page's state stages: the status of each stage
    cancel_requests, \* the job ids cancelAnalysis has posted a cancel for
    calls,       \* the callbacks the subscription has invoked, in order
    events,      \* the number of events the EventSource has delivered
    ticker       \* how many values the page's ticker has had

vars == << pc, filing, call, attempt, permits, requests, sleeps, response,
           fetched, index_url, doc_url, html, text, items_list, i, last_pos,
           results, extracted, outcome, soup, cancelled, lifecycle, async,
           cleanup, eventSource, onCancelled, jobIdRef, isCompletedRef,
           isLoading, error, pageResult, stages, cancel_requests, calls,
           events, ticker >>

fetchVars == << call, attempt, permits, requests, sleeps, response, fetched >>
segVars == << text, items_list, i, last_pos, results, extracted >>

\* the analysis page and its subscription to the job's stream
pageVars == << lifecycle, async, cleanup, eventSource, onCancelled, jobIdRef,
               isCompletedRef, isLoading, error, pageResult, stages,
               cancel_requests, calls, events, ticker >>

\* the client side of a job: its cancellation, and the page
clientVars == << cancelled, pageVars >>

\* the five stages of the page, numbered from 0, with their first status
INITIAL_STAGES == [k \in 0..4 |-> "pending"]

\* no page is shown, nothing has been cancelled
ClientIdle ==
    /\ cancelled = FALSE
    /\ lifecycle = "none" /\ async = "none" /\ cleanup = FALSE
    /\ eventSource = "none" /\ onCancelled = FALSE
    /\ jobIdRef = << >> /\ isCompletedRef = FALSE
    /\ isLoading = TRUE /\ error = << >> /\ pageResult = << >>
    /\ stages = INITIAL_STAGES
    /\ cancel_requests = {} /\ calls = << >> /\ events = 0 /\ ticker = 0

-----------------------------------------------------------------------------
(* Characters and strings *)

NL == "\n"
NBSP == "nbsp"      \* U+00A0, whitespace for \s
ZWSP == "zwsp"      \* U+200B, not whitespace for \s

\* [^\S\r\n]: whitespace other than CR and LF
HWS == {" ", "\t", NBSP}
\* \s
WS == HWS \cup {NL, "\r"}
\* \d
DIGITS == {"0", "1", "2", "3", "4", "5", "6", "7", "8", "9"}
\* [.*~\-:\s\(]
DELIMS == {".", "*", "~", "-", ":", "("} \cup WS

LowerToUpper ==
    "a" :> "A" @@ "b" :> "B" @@ "c" :> "C" @@ "d" :> "D" @@ "e" :> "E" @@
    "f" :> "F" @@ "g" :> "G" @@ "h" :> "H" @@ "i" :> "I" @@ "j" :> "J" @@
    "k" :> "K" @@ "l" :> "L" @@ "m" :> "M" @@ "n" :> "N" @@ "o" :> "O" @@
    "p" :> "P" @@ "q" :> "Q" @@ "r" :> "R" @@ "s" :> "S" @@ "t" :> "T" @@
    "u" :> "U" @@ "v" :> "V" @@ "w" :> "W" @@ "x" :> "X" @@ "y" :> "Y" @@
    "z" :> "Z"

\* re.IGNORECASE compares characters up to case
Upper(c) == IF c \in DOMAIN LowerToUpper THEN LowerToUpper[c] ELSE c

\* text[p] for a 0-based offset p; "" past the end (it is in no class)
At(t, p) == IF p >= 0 /\ p < Len(t) THEN t[p + 1] ELSE ""

\* text[a:b]
Slice(t, a, b) == SubSeq(t, a + 1, b)

\* the offset of the first character at or after p that is not in cls
RECURSIVE SkipWhile(_, _, _)
SkipWhile(t, p, cls) ==
    IF At(t, p) \in cls THEN SkipWhile(t, p + 1, cls) ELSE p

\* the literal word w (upper case) at offset p, ignoring case
MatchWord(t, p, w) ==
    \A k \in 1..Len(w) : Upper(At(t, p + k - 1)) = w[k]

\* the offset of the last character at or before p that is not in cls
RECURSIVE SkipBack(_, _, _)
SkipBack(t, p, cls) ==
    IF At(t, p) \in cls THEN SkipBack(t, p - 1, cls) ELSE p

\* str.strip()
Strip(t) ==
    LET a == SkipWhile(t, 0, WS)
        b == SkipBack(t, Len(t) - 1, WS)
    IN  IF a > b THEN << >> ELSE Slice(t, a, b + 1)

-----------------------------------------------------------------------------
(* Item catalogs *)

SIGNATURE == <<"S", "I", "G", "N", "A", "T", "U", "R", "E">>

ITEM_LIST_8K ==
    << <<"1", ".", "0", "1">>, <<"1", ".", "0", "2">>, <<"1", ".", "0", "3">>,
       <<"1", ".", "0", "4">>, <<"1", ".", "0", "5">>, <<"2", ".", "0", "1">>,
       <<"2", ".", "0", "2">>, <<"2", ".", "0", "3">>, <<"2", ".", "0", "4">>,
       <<"2", ".", "0", "5">>, <<"2", ".", "0", "6">>, <<"3", ".", "0", "1">>,
       <<"3", ".", "0", "2">>, <<"3", ".", "0", "3">>, <<"4", ".", "0", "1">>,
       <<"4", ".", "0", "2">>, <<"5", ".", "0", "1">>, <<"5", ".", "0", "2">>,
       <<"5", ".", "0", "3">>, <<"5", ".", "0", "4">>, <<"5", ".", "0", "5">>,
       <<"5", ".", "0", "6">>, <<"5", ".", "0", "7">>, <<"5", ".", "0", "8">>,
       <<"6", ".", "0", "1">>, <<"6", ".", "0", "2">>, <<"6", ".", "0", "3">>,
       <<"6", ".", "0", "4">>, <<"6", ".", "0", "5">>, <<"7", ".", "0", "1">>,
       <<"8", ".", "0", "1">>, <<"9", ".", "0", "1">>,
       SIGNATURE >>

ITEM_LIST_8K_OBSOLETE ==
    << <<"1">>, <<"2">>, <<"3">>, <<"4">>, <<"5">>, <<"6">>, <<"7">>, <<"8">>,
       <<"9">>, <<"1", "0">>, <<"1", "1">>, <<"1", "2">>,
       SIGNATURE >>

ITEM_LIST_10K ==
    << <<"1">>, <<"1", "A">>, <<"1", "B">>, <<"2">>, <<"3">>, <<"4">>,
       <<"5">>, <<"6">>, <<"7">>, <<"7", "A">>, <<"8">>, <<"9">>,
       <<"9", "A">>, <<"9", "B">>, <<"1", "0">>, <<"1", "1">>, <<"1", "2">>,
       <<"1", "3">>, <<"1", "4">>, <<"1", "5">> >>

OBSOLETE_CUTOFF_DATE == <<"2", "0", "0", "4", "-", "0", "8", "-", "2", "3">>

\* code points of the characters dates are written with
Ord(c) ==
    CASE c = "-" -> 45 [] c = "/" -> 47
      [] c = "0" -> 48 [] c = "1" -> 49 [] c = "2" -> 50 [] c = "3" -> 51
      [] c = "4" -> 52 [] c = "5" -> 53 [] c = "6" -> 54 [] c = "7" -> 55
      [] c = "8" -> 56 [] c = "9" -> 57 [] c = "T" -> 84

\* Python's s >= t on strings: lexicographic by code point
RECURSIVE StrGE(_, _)
StrGE(s, t) ==
    IF t = << >> THEN TRUE
    ELSE IF s = << >> THEN FALSE
    ELSE IF Ord(Head(s)) # Ord(Head(t)) THEN Ord(Head(s)) > Ord(Head(t))
    ELSE StrGE(Tail(s), Tail(t))

\* a cutoff date that still selects the obsolete list
get_item_list_after_cutoff(filing_type, filing_date) ==
    IF filing_type = "8-K"
    THEN IF StrGE(filing_date, OBSOLETE_CUTOFF_DATE)
            /\ filing_date # OBSOLETE_CUTOFF_DATE
         THEN ITEM_LIST_8K
         ELSE ITEM_LIST_8K_OBSOLETE
    ELSE IF filing_type = "10-K" THEN ITEM_LIST_10K
    ELSE << >>

get_item_list(filing_type, filing_date) ==
    IF filing_type = "8-K" THEN
        IF StrGE(filing_date, OBSOLETE_CUTOFF_DATE)
        THEN ITEM_LIST_8K
        ELSE ITEM_LIST_8K_OBSOLETE
    ELSE IF filing_type = "10-K" THEN ITEM_LIST_10K
    ELSE << >>

-----------------------------------------------------------------------------
(* Header patterns *)

HasChar(s, c) == \E k \in 1..Len(s) : s[k] = c

\* The pattern of a label.  sig: the SIGNATURE(S|\(S\))? pattern; otherwise
\* ITEMS?\s* followed by the atoms, an atom being one literal character,
\* preceded by [^\S\r\n]* when hws is set.
adjust_item_pattern(item_index) ==
    IF item_index = SIGNATURE THEN [sig |-> TRUE, atoms |-> << >>]
    ELSE [sig |-> FALSE,
          atoms |-> [k \in 1..Len(item_index) |->
              [ch |-> item_index[k],
               hws |-> IF HasChar(item_index, "A") THEN item_index[k] = "A"
                       ELSE item_index[k] = "B"]]]

\* the offset after the atoms from index k on, matched at p; -1 if none
RECURSIVE MatchAtoms(_, _, _, _)
MatchAtomAt(t, q, atoms, k) ==
    IF Upper(At(t, q)) = atoms[k].ch THEN MatchAtoms(t, q + 1, atoms, k + 1)
    ELSE -1

MatchAtoms(t, p, atoms, k) ==
    IF k > Len(atoms) THEN p
    ELSE MatchAtomAt(t, IF atoms[k].hws THEN SkipWhile(t, p, HWS) ELSE p,
                     atoms, k)

\* The offsets at which item_pattern, matched at p, can end, in the order
\* the regex engine tries them (greedy first).
OptEnd(e) == IF e # -1 THEN <<e>> ELSE << >>

ItemPatternEnds(t, p, pat) ==
    IF pat.sig THEN
        IF ~MatchWord(t, p, SIGNATURE) THEN << >>
        ELSE LET q == p + Len(SIGNATURE)
             IN  (IF Upper(At(t, q)) = "S" THEN <<q + 1>> ELSE << >>)
                 \o (IF At(t, q) = "(" /\ Upper(At(t, q + 1)) = "S"
                        /\ At(t, q + 2) = ")"
                     THEN <<q + 3>> ELSE << >>)
                 \o <<q>>
    ELSE
        IF ~MatchWord(t, p, <<"I", "T", "E", "M">>) THEN << >>
        ELSE OptEnd(IF Upper(At(t, p + 4)) = "S"
                    THEN MatchAtoms(t, SkipWhile(t, p + 5, WS), pat.atoms, 1)
                    ELSE -1)
             \o OptEnd(MatchAtoms(t, SkipWhile(t, p + 4, WS), pat.atoms, 1))

\* rf"\n[^\S\r\n]*{item_pattern}[.*~\-:\s\(]" matched at offset p: the
\* offset after the match, -1 if it does not match there
\* the first of the candidate ends that a delimiter follows
FirstDelimited(t, ends) ==
    LET ok == {k \in 1..Len(ends) : At(t, ends[k]) \in DELIMS}
    IN  IF ok = {} THEN -1
        ELSE ends[CHOOSE k \in ok : \A j \in ok : k <= j] + 1

HeaderEnd(t, p, pat) ==
    IF At(t, p) # NL THEN -1
    ELSE FirstDelimited(t, ItemPatternEnds(t, SkipWhile(t, p + 1, HWS), pat))

\* the least element of a set of offsets, -1 if it is empty
Least(S) == IF S = {} THEN -1 ELSE CHOOSE q \in S : \A r \in S : q <= r

\* re.search: the start of the leftmost match at or after p, -1 if none
search(t, pat, p) ==
    Least({q \in p..(Len(t) - 1) : HeaderEnd(t, q, pat) # -1})

\* re.finditer: the non-overlapping matches from offset p on, left to
\* right; each search resumes where the previous match ended
RECURSIVE finditer(_, _, _)
finditer_at(t, pat, start) ==
    IF start = -1 THEN << >>
    ELSE <<[start |-> start, end |-> HeaderEnd(t, start, pat)]>>
         \o finditer(t, pat, HeaderEnd(t, start, pat))

finditer(t, pat, p) == finditer_at(t, pat, search(t, pat, p))

-----------------------------------------------------------------------------
(* ItemExtractor.parse_item *)

\* Optional values: << >> is None, <<v>> is the value v.
None == << >>
Some(v) == <<v>>

\* The inner loop over next_items: the offset, in the text after the
\* header, of the header of the first label of next_items (in list order)
\* that occurs there; -1 if no label of next_items occurs.
\* an inner loop that takes the header nearest to the item's own header,
\* whichever label of next_items it belongs to
first_end_match_by_position(rest, next_items, k) ==
    Least({search(rest, adjust_item_pattern(next_items[j]), 0) :
               j \in k..Len(next_items)} \ {-1})

RECURSIVE first_end_match(_, _, _)
first_end_match_at(rest, next_items, k, end_match) ==
    IF end_match # -1 THEN end_match
    ELSE first_end_match(rest, next_items, k + 1)

first_end_match(rest, next_items, k) ==
    IF k > Len(next_items) THEN -1
    ELSE first_end_match_at(rest, next_items, k,
             search(rest, adjust_item_pattern(next_items[k]), 0))

\* a loop body whose rest-of-text branch keeps the header alone
parse_item_body_header_only(t, match, end_match, last_position, best_match, best_content) ==
    IF end_match # -1 /\ match.end + end_match - match.start > Len(best_content)
    THEN [best_match |-> Some(match),
          best_content |-> Slice(t, match.start, match.end + end_match)]
    ELSE IF best_match = None /\ match.start >= last_position
    THEN [best_match |-> Some(match),
          best_content |-> Slice(t, match.start, match.end)]
    ELSE [best_match |-> best_match, best_content |-> best_content]

\* The body of the loop over matches for one match that is not skipped:
\* the loop's two variables after it.  end_match is where the inner loop
\* over next_items found the next header (-1: it did not).
parse_item_body(t, match, end_match, last_position, best_match, best_content) ==
    LET offset == match.start
        content == Slice(t, offset, match.end + end_match)
        longer == end_match # -1 /\ Len(content) > Len(best_content)
        rest_of_text == ~longer /\ best_match = None
                        /\ match.start >= last_position
    IN  IF longer THEN [best_match |-> Some(match), best_content |-> content]
        ELSE IF rest_of_text
        THEN [best_match |-> Some(match), best_content |-> Slice(t, offset, Len(t))]
        ELSE [best_match |-> best_match, best_content |-> best_content]

\* The loop over matches, from matches[k] on; best: the loop's two variables.
RECURSIVE parse_item_loop(_, _, _, _, _, _)
parse_item_loop(t, matches, k, next_items, last_position, best) ==
    IF k > Len(matches) THEN best
    ELSE IF matches[k].start < last_position
    THEN parse_item_loop(t, matches, k + 1, next_items, last_position, best)
    ELSE parse_item_loop(t, matches, k + 1, next_items, last_position,
             parse_item_body(t, matches[k],
                 first_end_match(Slice(t, matches[k].end, Len(t)), next_items, 1),
                 last_position, best.best_match, best.best_content))

\* the regular expressions of re.sub calls, matched at offset p: the offset
\* after the match, -1 if the expression does not match at p
\* the words from index k on, \s+ between them, matched at p: the offset
\* after the last word, -1 if they are not there
RECURSIVE MatchWords(_, _, _, _)
MatchWords(t, p, words, k) ==
    IF ~MatchWord(t, p, words[k]) THEN -1
    ELSE IF k = Len(words) THEN p + Len(words[k])
    ELSE IF At(t, p + Len(words[k])) \notin WS THEN -1
    ELSE MatchWords(t, SkipWhile(t, p + Len(words[k]), WS), words, k + 1)

DASHES == {"-", "endash", "emdash"}                     \* [-–—]
UDASHES == {"u2010", "u2011", "u2012", "endash", "emdash", "u2015"}

\* cls+ at q: the offset after it, -1 if no character of cls is at q
Plus(t, q, cls) == IF At(t, q) \in cls THEN SkipWhile(t, q, cls) ELSE -1

\* the word w at q: the offset after it, -1 if it is not there
WordAt(t, q, w) == IF q # -1 /\ MatchWord(t, q, w) THEN q + Len(w) ELSE -1

\* a newline at q: the offset after it, -1 if there is none
NlAt(t, q) == IF At(t, q) = NL THEN q + 1 ELSE -1

\* the letter ch at q and [^\S\r\n]* after it: the offset after both
LetterThenHws(t, q, ch) ==
    IF Upper(At(t, q)) = ch THEN SkipWhile(t, q + 1, HWS) ELSE -1

\* (\n[^\S\r\n]*)(I[^\S\r\n]*T[^\S\r\n]*E[^\S\r\n]*M): the offsets of I, of M
RxHeaderI(t, p) == SkipWhile(t, p + 1, HWS)
RxHeaderMAt(t, d) == IF Upper(At(t, d)) = "M" THEN d ELSE -1
RxHeaderM(t, p) ==
    RxHeaderMAt(t, LetterThenHws(t, LetterThenHws(t,
        LetterThenHws(t, RxHeaderI(t, p), "I"), "T"), "E"))
\* ([^\S\r\n]+)(\d) after the M at d
RxHeaderDigit(t, d, e) ==
    IF d # -1 /\ e # -1 /\ At(t, e) \in DIGITS THEN e + 1 ELSE -1
RxHeaderTail(t, d) == RxHeaderDigit(t, d, Plus(t, d + 1, HWS))

Either(a, b) == IF a # -1 THEN a ELSE b
RxTocWords(t, a) ==
    Either(MatchWords(t, a, << <<"T", "A", "B", "L", "E">>, <<"O", "F">>,
                       <<"C", "O", "N", "T", "E", "N", "T", "S">> >>, 1),
           MatchWords(t, a, << <<"I", "N", "D", "E", "X">>, <<"T", "O">>,
                       <<"F", "I", "N", "A", "N", "C", "I", "A", "L">> >>, 1))
RxAfterHws(t, w) == IF w = -1 THEN -1 ELSE NlAt(t, SkipWhile(t, w, HWS))

\* \n\s*\n\s*\n at p, r being the end of the whitespace run that starts at
\* p: the match runs through the last newline of the run, which must hold
\* three newlines
RxBlank(t, p, r) ==
    IF Cardinality({k \in p..(r - 1) : At(t, k) = NL}) >= 3
    THEN SkipBack(t, r - 1, WS \ {NL}) + 1 ELSE -1

MatchEnd(rx, t, p) ==
    CASE rx = "spaces" ->                               \* [ ]{2,}
           IF At(t, p) = " " /\ At(t, p + 1) = " "
           THEN SkipWhile(t, p, {" "}) ELSE -1
      [] rx = "newlines" ->                             \* \n{3,}
           IF At(t, p) = NL /\ At(t, p + 1) = NL /\ At(t, p + 2) = NL
           THEN SkipWhile(t, p, {NL}) ELSE -1
      [] rx = "header" ->
           \* (\n[^\S\r\n]*)(I[^\S\r\n]*T[^\S\r\n]*E[^\S\r\n]*M)([^\S\r\n]+)(\d)
           IF At(t, p) # NL THEN -1 ELSE RxHeaderTail(t, RxHeaderM(t, p))
      [] rx = "toc" ->
           \* \n[^\S\r\n]*(TABLE\s+OF\s+CONTENTS|INDEX\s+TO\s+FINANCIAL)[^\S\r\n]*\n
           IF At(t, p) # NL THEN -1
           ELSE RxAfterHws(t, RxTocWords(t, SkipWhile(t, p + 1, HWS)))
      [] rx = "pagenum" ->
           \* \n[^\S\r\n]*[-–—]*\d+[-–—]*[^\S\r\n]*\n
           IF At(t, p) # NL THEN -1
           ELSE RxAfterHws(t, SkipWhile(t,
                    Plus(t, SkipWhile(t, SkipWhile(t, p + 1, HWS), DASHES), DIGITS),
                    DASHES))
      [] rx = "page" ->
           \* \n[^\S\r\n]*Page\s+\d+[^\S\r\n]*\n
           IF At(t, p) # NL THEN -1
           ELSE RxAfterHws(t,
                    Plus(t, Plus(t, WordAt(t, SkipWhile(t, p + 1, HWS),
                                           <<"P", "A", "G", "E">>), WS), DIGITS))
      [] rx = "nbsp" -> IF At(t, p) \in {NBSP, ZWSP} THEN p + 1 ELSE -1
      [] rx = "squote" -> IF At(t, p) \in {"lsquo", "rsquo"} THEN p + 1 ELSE -1
      [] rx = "dquote" -> IF At(t, p) \in {"ldquo", "rdquo"} THEN p + 1 ELSE -1
      [] rx = "dash" -> IF At(t, p) \in UDASHES THEN p + 1 ELSE -1
      [] rx = "blank" ->                                \* \n\s*\n\s*\n
           IF At(t, p) # NL THEN -1 ELSE RxBlank(t, p, SkipWhile(t, p, WS))

\* the replacement of re.sub for the match [p, e)
Repl(rx, t, p, e) ==
    CASE rx = "spaces" -> <<" ">>
      [] rx = "newlines" -> <<NL, NL>>
      [] rx = "header" ->                               \* \1ITEM\3\4
           Slice(t, p, RxHeaderI(t, p)) \o <<"I", "T", "E", "M">>
               \o Slice(t, RxHeaderM(t, p) + 1, e)
      [] rx \in {"toc", "pagenum", "page"} -> <<NL>>
      [] rx = "nbsp" -> <<" ">>
      [] rx = "squote" -> <<"'">>
      [] rx = "dquote" -> <<"dq">>
      [] rx = "dash" -> <<"-">>
      [] rx = "blank" -> <<NL, NL>>

\* re.sub(rx, repl, t): leftmost non-overlapping matches, from offset p on
RECURSIVE re_sub(_, _, _)
re_sub_at(rx, t, p, start) ==
    IF start = -1 THEN Slice(t, p, Len(t))
    ELSE Slice(t, p, start) \o Repl(rx, t, start, MatchEnd(rx, t, start))
         \o re_sub(rx, t, MatchEnd(rx, t, start))

\* the text from p on, after the substitution; start: where the leftmost
\* match at or after p starts
re_sub(rx, t, p) ==
    re_sub_at(rx, t, p, Least({q \in p..(Len(t) - 1) : MatchEnd(rx, t, q) # -1}))

_clean_item_content(content) ==
    Strip(re_sub("newlines", re_sub("spaces", content, 0), 0))

\* the end of parse_item: the ExtractedItem, or None
parse_item_result(item_index, best) ==
    IF best.best_match # None /\ best.best_content # << >>
    THEN Some([item_number |-> item_index,
               content |-> _clean_item_content(best.best_content),
               start_pos |-> best.best_match[1].start,
               end_pos |-> best.best_match[1].start + Len(best.best_content)])
    ELSE None

\* a parse_item that answers a header it did not find with an empty item
parse_item_matches_empty_item(t, item_index, matches, next_items, last_position) ==
    IF matches = << >>
    THEN Some([item_number |-> item_index, content |-> << >>,
               start_pos |-> last_position, end_pos |-> last_position])
    ELSE parse_item_result(item_index,
             parse_item_loop(t, matches, 1, next_items, last_position,
                 [best_match |-> None, best_content |-> << >>]))

parse_item_matches(t, item_index, matches, next_items, last_position) ==
    IF matches = << >> THEN None
    ELSE parse_item_result(item_index,
             parse_item_loop(t, matches, 1, next_items, last_position,
                 [best_match |-> None, best_content |-> << >>]))

parse_item(t, item_index, next_items, last_position) ==
    parse_item_matches(t, item_index,
        finditer(t, adjust_item_pattern(item_index), 0),
        next_items, last_position)

clean_text(t) ==
    LET t1 == re_sub("header", t, 0)
        t2 == re_sub("toc", t1, 0)
        t3 == re_sub("pagenum", t2, 0)
        t4 == re_sub("page", t3, 0)
        t5 == re_sub("nbsp", t4, 0)
        t6 == re_sub("squote", t5, 0)
        t7 == re_sub("dquote", t6, 0)
        t8 == re_sub("dash", t7, 0)
        t9 == re_sub("blank", t8, 0)
    IN  Strip(t9)

\* the key of a label in the result dict
item_key(item_index) ==
    IF item_index # SIGNATURE THEN <<"i", "t", "e", "m", "_">> \o item_index
    ELSE <<"s", "i", "g", "n", "a", "t", "u", "r", "e">>

-----------------------------------------------------------------------------
(* Bounds and input sets *)

MaxLines == 4       \* lines of a document handed to the segmenter

\* the lines documents are made of
LINE_502 == <<"I", "T", "E", "M", " ", "5", ".", "0", "2", " ", "x">>
LINE_701 == <<"I", "T", "E", "M", " ", "7", ".", "0", "1", " ", "x">>
LINE_BODY == <<"x">>
\* a blank line, the two header lines, a signature line, a body line
SegLines == {<< >>, LINE_502, LINE_701, SIGNATURE, LINE_BODY}

\* "\n".join(lines)
RECURSIVE Join(_)
Join(lines) ==
    IF lines = << >> THEN << >>
    ELSE IF Len(lines) = 1 THEN lines[1]
    ELSE lines[1] \o <<NL>> \o Join(Tail(lines))

SegTexts == {Join(ls) : ls \in UNION {[1..n -> SegLines] : n \in 0..MaxLines}}

\* 2003-12-31, the day before the cutoff, the cutoff, 2005-01-02
FilingDates ==
    {<<"2", "0", "0", "3", "-", "1", "2", "-", "3", "1">>,
     <<"2", "0", "0", "4", "-", "0", "8", "-", "2", "2">>,
     OBSOLETE_CUTOFF_DATE,
     <<"2", "0", "0", "5", "-", "0", "1", "-", "0", "2">>}
FilingTypes == {"8-K", "10-K", "S-1"}

\* central index keys: of a filer that is the filing agent (CIK_FILER),
\* and of one whose filing agent is someone else
CIK_FILER == <<"0", "0", "0", "1", "2">>

\* the accession number is given as its dash-separated parts
Filings ==
    [filing_type : FilingTypes, filing_date : FilingDates,
     cik : {CIK_FILER, <<"0", "0", "3", "4">>},
     accession_number :
         {<< <<"0", "0", "0", "1", "2">>, <<"2", "5">>, <<"0", "7">> >>},
     url : {<<"https://www.sec.gov", "/Archives/edgar/data/", "primary",
              ".xml">>}]

-----------------------------------------------------------------------------
(* ItemExtractor.extract_all_items *)

\* an entry that cleans the text before it looks at the catalog
ExtractBegin_cleans_first ==
    /\ pc = "extract"
    /\ items_list' = get_item_list(filing.filing_type, filing.filing_date)
    /\ pc' = IF items_list' = << >> THEN "extract_done" ELSE "parse"
    /\ text' = clean_text(text)
    /\ i' = 1
    /\ last_pos' = 0
    /\ results' = << >>
    /\ extracted' = << >>
    /\ UNCHANGED << clientVars, filing, fetchVars, index_url, doc_url, html, outcome, soup >>

\* entry: the catalog, the early return on an empty one, clean_text
ExtractBegin ==
    /\ pc = "extract"
    /\ items_list' = get_item_list(filing.filing_type, filing.filing_date)
    /\ IF items_list' = << >>
       THEN /\ pc' = "extract_done"
            /\ text' = text
       ELSE /\ pc' = "parse"
            /\ text' = clean_text(text)
    /\ i' = 1
    /\ last_pos' = 0
    /\ results' = << >>
    /\ extracted' = << >>
    /\ UNCHANGED << clientVars, filing, fetchVars, index_url, doc_url, html, outcome, soup >>

\* a loop body that forgets last_pos = result.end_pos
AfterParseItem_keeps_last_pos(item_index, result) ==
    IF result # None
    THEN /\ extracted' = (item_key(item_index) :> result[1].content) @@ extracted
         /\ results' = Append(results, result[1])
         /\ UNCHANGED last_pos
    ELSE UNCHANGED << extracted, last_pos, results >>

\* the loop body after the call of parse_item: if result: ...
AfterParseItem(item_index, result) ==
    IF result # None
    THEN /\ extracted' = (item_key(item_index) :> result[1].content) @@ extracted
         /\ last_pos' = result[1].end_pos
         /\ results' = Append(results, result[1])
    ELSE UNCHANGED << extracted, last_pos, results >>

\* one iteration of the loop over items_list; the last one returns
ParseItemStep ==
    /\ pc = "parse"
    /\ i <= Len(items_list)
    /\ AfterParseItem(items_list[i],
           parse_item(text, items_list[i],
                      SubSeq(items_list, i + 1, Len(items_list)), last_pos))
    /\ i' = i + 1
    /\ pc' = IF i = Len(items_list) THEN "extract_done" ELSE "parse"
    /\ UNCHANGED << clientVars, filing, fetchVars, index_url, doc_url, html, text, items_list,
                    outcome, soup >>

-----------------------------------------------------------------------------
(* The segmenter on its own: extract_all_items(text, filing_type, date) *)

InitSeg ==
    /\ pc = "extract"
    /\ filing \in {f \in Filings : f.cik = CIK_FILER}
    /\ text \in SegTexts
    /\ call = "" /\ attempt = 0 /\ permits = 0 /\ requests = 0
    /\ sleeps = << >> /\ response = None /\ fetched = None
    /\ index_url = << >> /\ doc_url = << >> /\ html = None /\ soup = << >>
    /\ items_list = << >> /\ i = 1 /\ last_pos = 0
    /\ results = << >> /\ extracted = << >>
    /\ outcome = [kind |-> "none"]
    /\ ClientIdle

NextSeg == ExtractBegin \/ ParseItemStep

SpecSeg == InitSeg /\ [][NextSeg]_vars

-----------------------------------------------------------------------------
(* The archive: what requests.get can answer *)

MaxRows == 2        \* rows of the document table of an index page
MaxNodes == 2       \* text nodes of a fetched document

HREF_IX == <<"/", "ix?doc=/", "Archives/edgar/data/12/", "d1", ".htm">>

\* a row of the 'Document Format Files' table: the Type column and the
\* href of the Document column
IndexRows ==
    [doc_type : {"8-K", "EX-99"},
     href : {<<"/Archives/edgar/data/12/", "d1", ".htm">>, HREF_IX,
             <<"/Archives/edgar/data/12/", "d1", ".txt">>}]
IndexPages == UNION {[1..n -> IndexRows] : n \in 0..MaxRows}

\* a text node of an HTML document: the enclosing tag and the string
DocNodes ==
    {[tag |-> "p",
      string |-> <<"x", NL>> \o LINE_502 \o <<NL>> \o SIGNATURE \o <<NL, "x">>],
     [tag |-> "p", string |-> <<" ", NL>>],
     [tag |-> "p", string |-> <<"x">>],
     [tag |-> "script", string |-> <<"x">>]}
Documents == UNION {[1..n -> DocNodes] : n \in 0..MaxNodes}

Statuses == {200, 404, 503}

\* response.text: has_message tells whether SEC_RATE_LIMIT_MESSAGE occurs
\* in it; body is the page it carries (the rows of an index page, the nodes
\* of a document; nothing on a throttling or error page)
Pages(which) ==
    [has_message : {FALSE},
     body : IF which = "index" THEN IndexPages ELSE Documents]

\* what one requests.get does: it times out, or it answers with a status
\* and a text
Replies(which) ==
    {[timeout |-> TRUE]}
    \cup [timeout : {FALSE}, status : Statuses,
          text : {[has_message |-> TRUE, body |-> << >>]}]
    \cup [timeout : {FALSE}, status : Statuses \ {200},
          text : {[has_message |-> FALSE, body |-> << >>]}]
    \cup [timeout : {FALSE}, status : {200}, text : Pages(which)]

-----------------------------------------------------------------------------
(* _request_html *)

retry_count == 5
\* time.sleep takes seconds; the model counts sleeps in half seconds
HalfSeconds(seconds) == 2 * seconds

\* requests_retry_session: the statuses its Retry would retry
status_forcelist == {500, 502, 503, 504}

\* a phrase check that looks at error statuses only
rate_limited_on_error_status(r) == r.text.has_message /\ r.status >= 400

\* SEC_RATE_LIMIT_MESSAGE in response.text
rate_limited(r) == r.text.has_message

\* a throttle wait that does not grow with the attempt
wait_time_flat(a) == HalfSeconds(2)

\* wait_time = (attempt + 1) * 2
wait_time(a) == HalfSeconds((a + 1) * 2)

\* time.sleep((attempt + 1) * 0.5)
timeout_sleep(a) == a + 1

\* a final-attempt test that is off by one
last_attempt_off_by_one(a) == a = retry_count

\* attempt == retry_count - 1
last_attempt(a) == a = retry_count - 1

\* a limiter consulted before the first attempt only
acquires_first_only(a) == a = 0

\* the iterations that call sec_edgar_limiter.acquire(): all of them
acquires(a) == TRUE

\* response.raise_for_status()
raises_for_status(r) == r.status >= 400 /\ r.status < 600

Returned(v) == Some([kind |-> "return", value |-> v, error |-> ""])
Raised(e) == Some([kind |-> "raise", value |-> None, error |-> e])

pipeVars == << filing, index_url, doc_url, html, outcome, soup >>

\* a loop that goes on past range(retry_count)
Acquire_past_cap ==
    /\ pc = "acquire"
    /\ permits' = permits + 1
    /\ pc' = "request"
    /\ UNCHANGED << call, attempt, requests, sleeps, response, fetched >>
    /\ UNCHANGED << clientVars, pipeVars, segVars >>

\* the top of one loop iteration: sec_edgar_limiter.acquire()
Acquire ==
    /\ pc = "acquire"
    /\ attempt < retry_count
    /\ permits' = IF acquires(attempt) THEN permits + 1 ELSE permits
    /\ pc' = "request"
    /\ UNCHANGED << call, attempt, requests, sleeps, response, fetched >>
    /\ UNCHANGED << clientVars, pipeVars, segVars >>

\* the rest of the iteration: requests.get and what follows it
Request ==
    /\ pc = "request"
    /\ requests' = requests + 1
    /\ \E r \in Replies(call) :
        /\ response' = Some(r)
        /\ IF r.timeout THEN
              IF last_attempt(attempt)
              THEN /\ fetched' = Raised("SECEdgarError")
                   /\ pc' = "fetch_done"
                   /\ UNCHANGED << attempt, sleeps >>
              ELSE /\ sleeps' = Append(sleeps, [after |-> "timeout",
                                               ticks |-> timeout_sleep(attempt)])
                   /\ attempt' = attempt + 1
                   /\ pc' = "acquire"
                   /\ UNCHANGED fetched
           ELSE IF rate_limited(r) THEN
              /\ sleeps' = Append(sleeps, [after |-> "throttle",
                                          ticks |-> wait_time(attempt)])
              /\ attempt' = attempt + 1
              /\ pc' = "acquire"
              /\ UNCHANGED fetched
           ELSE IF raises_for_status(r) THEN
              /\ fetched' = Raised("HTTPError")
              /\ pc' = "fetch_done"
              /\ UNCHANGED << attempt, sleeps >>
           ELSE
              /\ fetched' = Returned(Some(r.text))
              /\ pc' = "fetch_done"
              /\ UNCHANGED << attempt, sleeps >>
    /\ UNCHANGED << call, permits >>
    /\ UNCHANGED << clientVars, pipeVars, segVars >>

\* the loop ends without a return: the function returns None
LoopExit ==
    /\ pc = "acquire"
    /\ attempt >= retry_count
    /\ fetched' = Returned(None)
    /\ pc' = "fetch_done"
    /\ UNCHANGED << call, attempt, permits, requests, sleeps, response >>
    /\ UNCHANGED << clientVars, pipeVars, segVars >>

-----------------------------------------------------------------------------
(* get_filing_index_url, find_filing_document, strip_html *)

\* str.lstrip('0')
RECURSIVE lstrip0(_)
lstrip0(s) == IF s # << >> /\ Head(s) = "0" THEN lstrip0(Tail(s)) ELSE s

\* accession_number.replace('-', ''): the parts, concatenated
RECURSIVE Concat(_)
Concat(parts) == IF parts = << >> THEN << >> ELSE Head(parts) \o Concat(Tail(parts))

get_filing_index_url(cik, accession_number) ==
    <<"https://www.sec.gov", "/Archives/edgar/data/">> \o lstrip0(cik) \o <<"/">>
        \o Concat(accession_number) \o <<"/-index.html">>

\* a replace that leaves the URL as it is
RemoveToken_keeps(u, tok) == u

\* full_url.replace("ix?doc=/", "")
RECURSIVE RemoveToken(_, _)
RemoveToken(u, tok) ==
    IF u = << >> THEN << >>
    ELSE IF Head(u) = tok THEN RemoveToken(Tail(u), tok)
    ELSE <<Head(u)>> \o RemoveToken(Tail(u), tok)

\* the loop over the rows of the table, from row k on
RECURSIVE find_in_rows(_, _, _)
find_in_rows(rows, filing_type, k) ==
    IF k > Len(rows) THEN None
    ELSE LET href == rows[k].href
             full_url == <<"https://www.sec.gov">> \o href
         IN  IF rows[k].doc_type = filing_type
                /\ href[Len(href)] \in {".htm", ".html"}
             THEN Some(IF HasChar(full_url, "ix?doc=/")
                       THEN RemoveToken(full_url, "ix?doc=/")
                       ELSE full_url)
             ELSE find_in_rows(rows, filing_type, k + 1)

\* find_filing_document, after its fetch returned the page
find_filing_document(page, filing_type) == find_in_rows(page, filing_type, 1)

\* soup.get_text(separator=" ", strip=True) over the nodes from k on, the
\* script and style nodes removed
RECURSIVE get_text(_, _)
get_text(nodes, k) ==
    IF k > Len(nodes) THEN << >>
    ELSE LET rest == get_text(nodes, k + 1)
             str == Strip(nodes[k].string)
         IN  IF nodes[k].tag \in {"script", "style"} \/ str = << >> THEN rest
             ELSE IF rest = << >> THEN str
             ELSE str \o <<" ">> \o rest

\* a strip_html that reads None as the empty document
strip_html_lenient(html_content) ==
    IF html_content = None THEN [raised |-> "", text |-> << >>]
    ELSE [raised |-> "", text |-> get_text(html_content[1].body, 1)]

\* strip_html: re.sub raises TypeError when html_content is None
strip_html(html_content) ==
    IF html_content = None THEN [raised |-> "TypeError", text |-> << >>]
    ELSE [raised |-> "", text |-> get_text(html_content[1].body, 1)]

\* BeautifulSoup(html, "lxml") raises TypeError when html is None
soup_raises(v) == v = None

-----------------------------------------------------------------------------
(* download_filing *)

StartFetch(which) ==
    /\ call' = which
    /\ attempt' = 0
    /\ permits' = 0
    /\ requests' = 0
    /\ sleeps' = << >>
    /\ response' = None
    /\ fetched' = None

\* an exception leaves the try block of download_filing
Fail(e) ==
    /\ pc' = "FAILED"
    /\ outcome' = [kind |-> "error", error |-> e, at |-> pc]

\* Step 1, and the call of find_filing_document up to its fetch
Start ==
    /\ pc = "start"
    /\ index_url' = get_filing_index_url(filing.accession_number[1],
                                       filing.accession_number)
    /\ StartFetch("index")
    /\ pc' = "acquire"
    /\ UNCHANGED << clientVars, filing, doc_url, html, outcome, segVars, soup >>

\* if not doc_url: doc_url = filing.url
or_primary(found) == IF found = None THEN filing.url ELSE found[1]

\* Step 2: find_filing_document after its fetch, the fallback, and the
\* call of _request_html(doc_url)
IndexFetched ==
    /\ pc = "fetch_done"
    /\ call = "index"
    /\ IF fetched[1].kind = "raise" THEN
          /\ Fail(fetched[1].error)
          /\ UNCHANGED << fetchVars, doc_url >>
       ELSE IF soup_raises(fetched[1].value) THEN
          /\ Fail("TypeError")
          /\ UNCHANGED << fetchVars, doc_url >>
       ELSE
          /\ doc_url' = or_primary(find_filing_document(
                             fetched[1].value[1].body, filing.filing_type))
          /\ StartFetch("doc")
          /\ pc' = "acquire"
          /\ UNCHANGED outcome
    /\ UNCHANGED << clientVars, filing, index_url, html, segVars, soup >>

\* Step 3: html = self._request_html(doc_url)
DocFetched ==
    /\ pc = "fetch_done"
    /\ call = "doc"
    /\ IF fetched[1].kind = "raise" THEN
          /\ Fail(fetched[1].error)
          /\ UNCHANGED html
       ELSE
          /\ html' = fetched[1].value
          /\ pc' = "normalize"
          /\ UNCHANGED outcome
    /\ UNCHANGED << clientVars, filing, fetchVars, index_url, doc_url, segVars, soup >>

\* the rest of the processing: strip_html, then the segmenter
Normalize ==
    /\ pc = "normalize"
    /\ IF strip_html(html).raised # "" THEN
          /\ Fail(strip_html(html).raised)
          /\ UNCHANGED text
       ELSE
          /\ text' = strip_html(html).text
          /\ pc' = "extract"
          /\ UNCHANGED outcome
    /\ call' = "" /\ attempt' = 0 /\ permits' = 0 /\ requests' = 0
    /\ sleeps' = << >> /\ response' = None /\ fetched' = None
    /\ UNCHANGED << clientVars, filing, index_url, doc_url, html, soup, items_list, i, last_pos, results,
                    extracted >>

\* the item map goes to the downstream collaborator
Handoff ==
    /\ pc = "extract_done"
    /\ outcome' = [kind |-> "items", items |-> extracted]
    /\ pc' = "SEGMENTED"
    /\ UNCHANGED << clientVars, filing, fetchVars, index_url, doc_url, html, segVars, soup >>

Init ==
    /\ pc = "start"
    /\ filing \in Filings
    /\ call = "" /\ attempt = 0 /\ permits = 0 /\ requests = 0
    /\ sleeps = << >> /\ response = None /\ fetched = None
    /\ index_url = << >> /\ doc_url = << >> /\ html = None /\ soup = << >>
    /\ text = << >> /\ items_list = << >> /\ i = 1 /\ last_pos = 0
    /\ results = << >> /\ extracted = << >>
    /\ outcome = [kind |-> "none"]
    /\ ClientIdle

Next ==
    \/ Start
    \/ Acquire
    \/ Request
    \/ LoopExit
    \/ IndexFetched
    \/ DocFetched
    \/ Normalize
    \/ ExtractBegin
    \/ ParseItemStep
    \/ Handoff

Spec == Init /\ [][Next]_vars

-----------------------------------------------------------------------------
(* The round trip: "\nITEM 5.02 <body1>\nITEM 7.01 <body2>\nSIGNATURE\n" *)

MaxBody == 2        \* characters of an item body

Bodies == UNION {[1..n -> {"x", "y"}] : n \in 1..MaxBody}
HEADER_502 == <<"I", "T", "E", "M", " ", "5", ".", "0", "2">>
HEADER_701 == <<"I", "T", "E", "M", " ", "7", ".", "0", "1">>

RoundTripDoc(b1, b2) ==
    <<NL>> \o HEADER_502 \o <<" ">> \o b1 \o <<NL>> \o HEADER_701 \o <<" ">> \o b2
        \o <<NL>> \o SIGNATURE \o <<NL>>

InitRoundTrip ==
    /\ pc = "extract"
    /\ filing \in {f \in Filings : /\ f.filing_type = "8-K"
                                  /\ f.filing_date = OBSOLETE_CUTOFF_DATE
                                  /\ f.cik = CIK_FILER}
    /\ text \in {RoundTripDoc(b1, b2) : b1 \in Bodies, b2 \in Bodies}
    /\ call = "" /\ attempt = 0 /\ permits = 0 /\ requests = 0
    /\ sleeps = << >> /\ response = None /\ fetched = None
    /\ index_url = << >> /\ doc_url = << >> /\ html = None /\ soup = << >>
    /\ items_list = << >> /\ i = 1 /\ last_pos = 0
    /\ results = << >> /\ extracted = << >>
    /\ outcome = [kind |-> "none"]
    /\ ClientIdle

SpecRoundTrip == InitRoundTrip /\ [][NextSeg]_vars

-----------------------------------------------------------------------------
(* Properties of the segmenter *)

\* C1: the items are emitted with pairwise non-overlapping ranges of the
\* cleaned text, in the order of their start offsets: every emitted range is
\* a non-empty range of the text, and it starts at or after the end of the
\* range emitted before it.
C1_RangesDisjointAndOrdered ==
    \A k \in 1..Len(results) :
        /\ 0 <= results[k].start_pos
        /\ results[k].start_pos < results[k].end_pos
        /\ results[k].end_pos <= Len(text)
        /\ k > 1 => results[k].start_pos >= results[k - 1].end_pos

\* a second item was emitted although its header also occurs before the end
\* of the first item's range
C1_Witness ==
    /\ pc = "extract_done"
    /\ Len(results) >= 2
    /\ search(text, adjust_item_pattern(results[2].item_number), 0)
           < results[1].end_pos
    /\ results[2].start_pos >= results[1].end_pos

\* C2: for an 8-K dated 2004-08-23 the document
\* "\nITEM 5.02 <body1>\nITEM 7.01 <body2>\nSIGNATURE\n" is segmented into
\* exactly three entries, item_5.02, item_7.01 and signature, each running
\* from its header up to the next header (the signature to the end).
C2_RoundTrip ==
    pc = "extract_done" =>
        \E b1 \in Bodies, b2 \in Bodies :
            /\ text = Strip(RoundTripDoc(b1, b2))
            /\ DOMAIN extracted =
                   {item_key(<<"5", ".", "0", "2">>),
                    item_key(<<"7", ".", "0", "1">>), item_key(SIGNATURE)}
            /\ extracted[item_key(<<"5", ".", "0", "2">>)]
                   = HEADER_502 \o <<" ">> \o b1
            /\ extracted[item_key(<<"7", ".", "0", "1">>)]
                   = HEADER_701 \o <<" ">> \o b2
            /\ extracted[item_key(SIGNATURE)] = SIGNATURE

\* the label the loop of extract_all_items has just been through, and the
\* consumed offset its parse_item was called with
JustParsed == items_list[i - 1]
JustEmitted == results # << >> /\ results[Len(results)].item_number = JustParsed
OffsetBefore ==
    IF ~JustEmitted THEN last_pos
    ELSE IF Len(results) >= 2 THEN results[Len(results) - 1].end_pos
    ELSE 0

\* C3: every entry of the item map has non-empty content, and a label whose
\* header does not occur at or after the consumed offset has no entry.
C3_NonEmptyOrAbsent ==
    /\ \A key \in DOMAIN extracted : extracted[key] # << >>
    /\ \A k \in 1..Len(results) : results[k].content # << >>
    /\ (pc \in {"parse", "extract_done"} /\ i > 1
        /\ search(text, adjust_item_pattern(JustParsed), OffsetBefore) = -1)
       => /\ ~JustEmitted
          /\ item_key(JustParsed) \notin DOMAIN extracted

\* an item was emitted, and a later label of the catalog has no entry
\* although its header occurs in the text, before the consumed offset
C3_Witness ==
    /\ pc \in {"parse", "extract_done"} /\ i > 1
    /\ results # << >>
    /\ ~JustEmitted
    /\ item_key(JustParsed) \notin DOMAIN extracted
    /\ search(text, adjust_item_pattern(JustParsed), 0) # -1
    /\ search(text, adjust_item_pattern(JustParsed), OffsetBefore) = -1

-----------------------------------------------------------------------------
(* Properties of _request_html *)

AllThrottled == \A k \in 1..Len(sleeps) : sleeps[k].after = "throttle"

\* C4: when every response up to the attempt cap carries the throttling
\* phrase, the fetch ends by raising RateLimitExhausted, not by returning.
C4_ExhaustionRaises ==
    (pc = "fetch_done" /\ Len(sleeps) = retry_count /\ AllThrottled)
        => fetched = Raised("RateLimitExhausted")

\* C5: when the first k-1 responses are throttled and the k-th is a normal
\* response, the fetch makes exactly k requests, sleeps (a + 1) * 2 seconds
\* after the throttled attempt a, and returns the k-th response's text.
C5_BackoffThenReturn ==
    (/\ pc = "fetch_done"
     /\ AllThrottled
     /\ response # None /\ ~response[1].timeout
     /\ response[1].status = 200 /\ ~response[1].text.has_message)
        => /\ requests = Len(sleeps) + 1
           /\ requests <= retry_count
           /\ \A k \in 1..Len(sleeps) : sleeps[k].ticks = HalfSeconds(k * 2)
           /\ \A k \in 2..Len(sleeps) : sleeps[k].ticks > sleeps[k - 1].ticks
           /\ fetched = Returned(Some(response[1].text))

\* the third response was the normal one
C5_Witness ==
    /\ pc = "fetch_done"
    /\ AllThrottled /\ Len(sleeps) = 2 /\ requests = 3
    /\ fetched # None /\ fetched[1].kind = "return" /\ fetched[1].value # None

\* C6: a text the fetch returns never contains the throttling phrase, after
\* whatever throttled and timed-out responses came before it.
C6_NoThrottlePageReturned ==
    (fetched # None /\ fetched[1].kind = "return" /\ fetched[1].value # None)
        => /\ ~fetched[1].value[1].has_message
           /\ fetched[1].value[1] = response[1].text

\* a text was returned after a throttled and a timed-out response
C6_Witness ==
    /\ pc = "fetch_done"
    /\ fetched # None /\ fetched[1].kind = "return" /\ fetched[1].value # None
    /\ \E k \in 1..Len(sleeps) : sleeps[k].after = "throttle"
    /\ \E k \in 1..Len(sleeps) : sleeps[k].after = "timeout"

\* C7: every request is preceded by one permit acquired after the request
\* before it: one permit is held unspent while a request is about to be
\* made, none otherwise, so a fetch acquires as many permits as it makes
\* requests.
C7_PermitPerRequest ==
    /\ pc = "request" => permits = requests + 1
    /\ pc \in {"acquire", "fetch_done"} => permits = requests
    /\ requests <= retry_count

\* a fetch ended after retries of throttled and of timed-out attempts
C7_Witness ==
    /\ pc = "fetch_done"
    /\ requests >= 3 /\ permits = requests
    /\ \E k \in 1..Len(sleeps) : sleeps[k].after = "throttle"
    /\ \E k \in 1..Len(sleeps) : sleeps[k].after = "timeout"

\* C8: a response with a transient status (500, 502, 503, 504) is retried;
\* the fetch raises HTTPError only for another status or once the retries
\* are used up.
C8_TransientStatusRetried ==
    (pc = "fetch_done" /\ fetched = Raised("HTTPError"))
        => \/ response[1].status \notin status_forcelist
           \/ requests = retry_count

\* C9: a timed-out request is retried after a sleep unless it was the
\* final attempt, and the timeout error is raised exactly when the final
\* attempt timed out.
C9_TimeoutOnlyOnFinalAttempt ==
    /\ (response # None /\ response[1].timeout) =>
           IF requests = retry_count
           THEN pc \in {"fetch_done", "FAILED"} /\ fetched = Raised("SECEdgarError")
           ELSE /\ pc \in {"acquire", "request"}
                /\ fetched = None
                /\ attempt = requests
                /\ sleeps[Len(sleeps)]
                       = [after |-> "timeout", ticks |-> timeout_sleep(requests - 1)]
    /\ fetched = Raised("SECEdgarError") =>
           /\ response[1].timeout
           /\ requests = retry_count

\* the timeout error after four retried timeouts, the fifth request timing
\* out too
C9_Witness ==
    /\ pc = "fetch_done"
    /\ fetched = Raised("SECEdgarError")
    /\ Len(sleeps) = retry_count - 1
    /\ \A k \in 1..Len(sleeps) : sleeps[k].after = "timeout"

-----------------------------------------------------------------------------
(* Properties of the pipeline *)

\* C10: when the fetch of the filing's document fails (it raises, or it
\* comes back without a document after throttling through all attempts), the
\* run ends in FAILED with an error outcome; the segmenter is never entered
\* and no item map is handed downstream without a fetched document.
C10_FetchFailureEndsInError ==
    /\ [](outcome.kind = "items" => html # None)
    /\ [](pc \in {"extract", "parse", "extract_done", "SEGMENTED"} => html # None)
    /\ [](pc = "FAILED" => outcome.kind = "error")
    /\ [][(pc = "fetch_done" /\ call = "doc" /\ fetched[1].kind = "raise")
            => (pc' = "FAILED" /\ outcome' = [kind |-> "error",
                                              error |-> fetched[1].error,
                                              at |-> "fetch_done"])]_vars
    /\ [][(pc = "normalize" /\ html = None)
            => (pc' = "FAILED" /\ outcome'.kind = "error")]_vars
    /\ [][pc # "FAILED"]_vars

\* the run failed after the document fetch was throttled through all its
\* attempts
C10_Witness ==
    /\ pc = "FAILED"
    /\ html = None
    /\ outcome = [kind |-> "error", error |-> "TypeError", at |-> "normalize"]

-----------------------------------------------------------------------------
(* Properties of the document locator *)

IndexFetchFailed ==
    /\ pc = "fetch_done" /\ call = "index"
    /\ \/ fetched[1].kind = "raise"
       \/ fetched[1].value = None

\* C11: document location never fails: when the fetch of the index page
\* fails (it raises, or it comes back without a page), the locator still
\* answers with the filing's originally reported URL and the pipeline goes
\* on to fetch that URL.
C11_LocateNeverFails ==
    [][IndexFetchFailed
         => (pc' = "acquire" /\ call' = "doc" /\ doc_url' = filing.url)]_vars

\* the rows of an index page whose type column equals the filing's type, and
\* those of them with an HTML-family extension
ARCHIVE_HOST == "https://www.sec.gov"
RowLink(row) == RemoveToken(<<ARCHIVE_HOST>> \o row.href, "ix?doc=/")
TypeRows(page) == {k \in 1..Len(page) : page[k].doc_type = filing.filing_type}
HtmlRows(page) ==
    {k \in TypeRows(page) :
        page[k].href[Len(page[k].href)] \in {".htm", ".html"}}

\* C12: for every index page the locator answers with the link of a row
\* whose type equals the filing's type, a row with an HTML-family extension
\* if there is one, whatever the order of the rows; with no row of the
\* filing's type it answers with the filing's originally reported URL.
C12_LocatePrefersHtmlRow ==
    [][(pc = "fetch_done" /\ call = "index" /\ ~IndexFetchFailed)
         => LET page == fetched[1].value[1].body
            IN  /\ pc' = "acquire" /\ call' = "doc"
                /\ IF HtmlRows(page) # {}
                   THEN \E k \in HtmlRows(page) : doc_url' = RowLink(page[k])
                   ELSE IF TypeRows(page) # {}
                   THEN \E k \in TypeRows(page) : doc_url' = RowLink(page[k])
                   ELSE doc_url' = filing.url]_vars

\* C13: the index page URL is
\* https://www.sec.gov/Archives/edgar/data/{c}/{a}/-index.html with c the
\* filing's central index key without its leading zeros and a the filing's
\* accession number without its separators.
C13_IndexUrlFromCikAndAccession ==
    pc # "start" =>
        index_url = <<ARCHIVE_HOST, "/Archives/edgar/data/">>
                        \o lstrip0(filing.cik) \o <<"/">>
                        \o Concat(filing.accession_number) \o <<"/-index.html">>

\* C14: a document URL taken from a row of the index page contains no
\* viewer marker 'ix?doc=/': it is the host followed by the raw path of an
\* HTML-family document.
C14_NoViewerMarker ==
    /\ ~HasChar(doc_url, "ix?doc=/")
    /\ (doc_url # << >> /\ doc_url # filing.url)
        => /\ Head(doc_url) = ARCHIVE_HOST
           /\ doc_url[Len(doc_url)] \in {".htm", ".html"}
           /\ \E row \in IndexRows :
                  doc_url = <<ARCHIVE_HOST>>
                            \o SelectSeq(row.href, LAMBDA tok : tok # "ix?doc=/")

\* the located row was a viewer link, and its raw path is about to be fetched
C14_Witness ==
    /\ pc = "acquire" /\ call = "doc"
    /\ doc_url = <<ARCHIVE_HOST>> \o SelectSeq(HREF_IX, LAMBDA tok : tok # "ix?doc=/")

-----------------------------------------------------------------------------
(* Properties of the catalog *)

\* the value of a decimal digit, and a YYYY-MM-DD date as the number YYYYMMDD
DigitValue(c) ==
    CASE c = "0" -> 0 [] c = "1" -> 1 [] c = "2" -> 2 [] c = "3" -> 3
      [] c = "4" -> 4 [] c = "5" -> 5 [] c = "6" -> 6 [] c = "7" -> 7
      [] c = "8" -> 8 [] c = "9" -> 9
RECURSIVE DateNumber(_, _, _)
DateNumber(d, k, acc) ==
    IF k > Len(d) THEN acc
    ELSE IF d[k] = "-" THEN DateNumber(d, k + 1, acc)
    ELSE DateNumber(d, k + 1, 10 * acc + DigitValue(d[k]))

\* C15: for an 8-K the catalog is the current numbered one (1.01 ... 9.01,
\* SIGNATURE) exactly when the filing date is on or after 2004-08-23, and
\* the obsolete numeric one (1 ... 12, SIGNATURE) otherwise.
C15_CatalogByDate ==
    (filing.filing_type = "8-K" /\ pc \in {"parse", "extract_done"})
        => /\ items_list \in {ITEM_LIST_8K, ITEM_LIST_8K_OBSOLETE}
           /\ items_list = ITEM_LIST_8K
                  <=> DateNumber(filing.filing_date, 1, 0) >= 20040823
           /\ Len(ITEM_LIST_8K) = 33 /\ ITEM_LIST_8K[1] = <<"1", ".", "0", "1">>
           /\ ITEM_LIST_8K[32] = <<"9", ".", "0", "1">>
           /\ ITEM_LIST_8K[33] = SIGNATURE
           /\ Len(ITEM_LIST_8K_OBSOLETE) = 13
           /\ ITEM_LIST_8K_OBSOLETE[12] = <<"1", "2">>
           /\ ITEM_LIST_8K_OBSOLETE[13] = SIGNATURE

\* an 8-K filed on the cutoff date itself is being segmented with the
\* current catalog
C15_Witness ==
    /\ pc = "parse"
    /\ filing.filing_type = "8-K"
    /\ filing.filing_date = OBSOLETE_CUTOFF_DATE
    /\ items_list = ITEM_LIST_8K

\* C16: for a filing type other than 8-K and 10-K the catalog is empty, and
\* segmentation returns the empty map at once: no label is parsed, no error
\* is raised and the text is left as it was, neither cleaned nor searched.
C16_UnknownTypeEmptyMap ==
    /\ [](filing.filing_type \notin {"8-K", "10-K"}
            => /\ get_item_list(filing.filing_type, filing.filing_date) = << >>
               /\ pc # "parse"
               /\ items_list = << >> /\ results = << >> /\ extracted = << >>)
    /\ [][(pc = "extract" /\ filing.filing_type \notin {"8-K", "10-K"})
            => /\ pc' = "extract_done"
               /\ text' = text
               /\ extracted' = << >>]_vars

\* the empty map was returned for a text that has an item header and that
\* cleaning would have changed
C16_Witness ==
    /\ pc = "extract_done"
    /\ filing.filing_type = "S-1"
    /\ extracted = << >>
    /\ text # clean_text(text)
    /\ search(text, adjust_item_pattern(<<"5", ".", "0", "2">>), 0) # -1

-----------------------------------------------------------------------------
(* remove_numeric_tables *)

MaxTables == 2          \* tables of a parsed document
MaxStyledRows == 2      \* tr/td/th elements of a table with a style attribute

\* table.get_text(): ITEM and ITEMS headers, a text the unescaped dot
\* of a label matches, a signature header, numbers only
TableTexts ==
    {<<"I", "T", "E", "M", " ", "5", ".", "0", "2">>,
     <<"I", "t", "e", "m", "s", " ", "5", ".", "0", "2">>,
     <<"i", "t", "e", "m", "5", "x", "0", "2">>,
     <<"x", " ">> \o SIGNATURE,
     <<"1", "2", " ", "5", ".", "0", "2">>}

\* style attributes, as their tokens
Styles ==
    {<<"background-color", ":", "#ccc">>,
     <<"BACKGROUND", ":", "#CCC">>,
     <<"background", ":", "#fff">>,
     <<"font-weight", ":", "bold">>}

Tables ==
    [text : TableTexts,
     styles : UNION {[1..n -> Styles] : n \in 0..MaxStyledRows}]
Soups == UNION {[1..n -> Tables] : n \in 0..MaxTables}

\* style.lower(), token by token
lower(tok) ==
    CASE tok = "BACKGROUND" -> "background"
      [] tok = "#CCC" -> "#ccc"
      [] OTHER -> tok

\* needle in style.lower(): the needle is one of the tokens or a part of one
contains(style, needle) ==
    \E k \in 1..Len(style) :
        \/ lower(style[k]) = needle
        \/ lower(style[k]) = "background-color" /\ needle = "background"

\* the item's characters as a regular expression, matched at p from the
\* k-th on: a dot matches any character but a newline
RECURSIVE match_raw_item(_, _, _, _)
match_raw_item(t, p, item, k) ==
    IF k > Len(item) THEN TRUE
    ELSE /\ IF item[k] = "." THEN At(t, p) \notin {"", NL}
            ELSE Upper(At(t, p)) = item[k]
         /\ match_raw_item(t, p + 1, item, k + 1)

\* re.search(rf"ITEM\s*{item}", table_text, re.IGNORECASE)
search_item(item, table_text) ==
    \E p \in 0..(Len(table_text) - 1) :
        /\ MatchWord(table_text, p, <<"I", "T", "E", "M">>)
        /\ match_raw_item(table_text, SkipWhile(table_text, p + 4, WS), item, 1)

\* the loop over items_list
has_item(table_text, list) ==
    \E k \in 1..Len(list) : search_item(list[k], table_text)

\* the loop over the styled rows: a background that is not a white one
coloured(table) ==
    \E k \in 1..Len(table.styles) :
        /\ contains(table.styles[k], "background")
        /\ ~\E c \in {"#fff", "#ffffff", "white", "transparent"} :
               contains(table.styles[k], c)

\* table.decompose() is reached
decomposed(table, list) == ~has_item(table.text, list) /\ coloured(table)

RECURSIVE remaining(_, _, _)
remaining(tables, list, k) ==
    IF k > Len(tables) THEN << >>
    ELSE (IF decomposed(tables[k], list) THEN << >> ELSE <<tables[k]>>)
         \o remaining(tables, list, k + 1)

\* remove_numeric_tables(soup, items_list)
remove_numeric_tables ==
    /\ pc = "tables"
    /\ soup' = remaining(soup, items_list, 1)
    /\ pc' = "tables_done"
    /\ UNCHANGED << clientVars, filing, fetchVars, index_url, doc_url, html, text, items_list,
                    i, last_pos, results, extracted, outcome >>

InitTables ==
    /\ pc = "tables"
    /\ soup \in Soups
    /\ items_list \in {ITEM_LIST_8K, ITEM_LIST_8K_OBSOLETE, ITEM_LIST_10K}
    /\ filing \in {f \in Filings : /\ f.filing_type = "8-K"
                                  /\ f.filing_date = OBSOLETE_CUTOFF_DATE
                                  /\ f.cik = CIK_FILER}
    /\ call = "" /\ attempt = 0 /\ permits = 0 /\ requests = 0
    /\ sleeps = << >> /\ response = None /\ fetched = None
    /\ index_url = << >> /\ doc_url = << >> /\ html = None
    /\ text = << >> /\ i = 1 /\ last_pos = 0
    /\ results = << >> /\ extracted = << >>
    /\ outcome = [kind |-> "none"]
    /\ ClientIdle

SpecTables == InitTables /\ [][remove_numeric_tables]_vars

\* the text has a header that adjust_item_pattern recognises for a label
recognised(table_text, list) ==
    \E k \in 1..Len(list), p \in 0..(Len(table_text) - 1) :
        ItemPatternEnds(table_text, p, adjust_item_pattern(list[k])) # << >>

RECURSIVE retained(_, _, _)
retained(tables, list, k) ==
    IF k > Len(tables) THEN << >>
    ELSE (IF ~recognised(tables[k].text, list) /\ coloured(tables[k])
          THEN << >> ELSE <<tables[k]>>)
         \o retained(tables, list, k + 1)

\* C17: the table filter keeps every table whose text has an item header
\* that the pattern of a catalog label recognises (ITEM or ITEMS, or
\* SIGNATURE), coloured or not; it removes a table without such a header
\* that declares a background that is not white; it keeps every other table.
C17_TableFilter ==
    [][pc = "tables" => soup' = retained(soup, items_list, 1)]_vars

-----------------------------------------------------------------------------
(* The segmenter on texts with page numbers, contents headers and 10-K
   labels with a letter *)

MaxNoisyLines == 3      \* lines of such a text

\* page-number lines (plain, between U+2010 dashes, after a zero-width
\* space), a contents header, a header of the 10-K label 1A, a body line
NoisyLines ==
    {<<"1">>,
     <<"u2010", "2", "u2010">>,
     <<ZWSP, "3">>,
     <<"T", "A", "B", "L", "E", " ", "O", "F", " ",
       "C", "O", "N", "T", "E", "N", "T", "S">>,
     <<"I", "T", "E", "M", " ", "1", "A", " ", "x">>,
     LINE_BODY}

NoisyTexts ==
    {Join(ls) : ls \in UNION {[1..n -> NoisyLines] : n \in 0..MaxNoisyLines}}

InitNoisy ==
    /\ pc = "extract"
    /\ filing \in {f \in Filings : /\ f.filing_type \in {"8-K", "10-K"}
                                  /\ f.filing_date = OBSOLETE_CUTOFF_DATE
                                  /\ f.cik = CIK_FILER}
    /\ text \in NoisyTexts
    /\ call = "" /\ attempt = 0 /\ permits = 0 /\ requests = 0
    /\ sleeps = << >> /\ response = None /\ fetched = None
    /\ index_url = << >> /\ doc_url = << >> /\ html = None /\ soup = << >>
    /\ items_list = << >> /\ i = 1 /\ last_pos = 0
    /\ results = << >> /\ extracted = << >>
    /\ outcome = [kind |-> "none"]
    /\ ClientIdle

SpecNoisy == InitNoisy /\ [][NextSeg]_vars

\* C18: text normalization is idempotent: the text clean_text returned is
\* left unchanged by a second clean_text, also when it had consecutive
\* page-number lines, consecutive contents headers, or page numbers written
\* with extended dashes or zero-width characters.
C18_CleanTextIdempotent ==
    pc = "parse" => clean_text(text) = text

\* str.lower() of a label
LowerCase(c) ==
    IF \E l \in DOMAIN LowerToUpper : LowerToUpper[l] = c
    THEN CHOOSE l \in DOMAIN LowerToUpper : LowerToUpper[l] = c
    ELSE c

\* C19: every key of the item map is 'signature' or 'item_' followed by a
\* catalog label in lower case: no key has an upper-case character.
C19_KeysLowerCase ==
    \A key \in DOMAIN extracted :
        /\ \E k \in 1..Len(items_list) :
               key = IF items_list[k] = SIGNATURE
                     THEN <<"s", "i", "g", "n", "a", "t", "u", "r", "e">>
                     ELSE <<"i", "t", "e", "m", "_">>
                          \o [j \in 1..Len(items_list[k])
                                |-> LowerCase(items_list[k][j])]
        /\ \A j \in 1..Len(key) : LowerCase(key[j]) = key[j]

-----------------------------------------------------------------------------
(* The stages of a pipeline run *)

\* C20: the stages of a run follow each other in the order index resolved,
\* fetched, normalized, segmented; a run fails only where a fetch is
\* awaited and only because that fetch raised: once the document fetch has
\* returned, whatever it returned, neither normalization nor segmentation
\* leads to FAILED.
C20_FailedOnlyFromFetch ==
    /\ [][pc' = "normalize" => (pc = "fetch_done" /\ call = "doc")]_vars
    /\ [][pc' = "extract" => pc = "normalize"]_vars
    /\ [][pc' = "SEGMENTED" => pc = "extract_done"]_vars
    /\ [][pc' = "FAILED" => (pc = "fetch_done" /\ fetched[1].kind = "raise")]_vars

-----------------------------------------------------------------------------
(* Cancellation of the job whose filing is being fetched *)

\* POST /api/v1/analyze/{job_id}/cancel arrives while a fetch is running
Cancel ==
    /\ pc \in {"acquire", "request"}
    /\ cancelled = FALSE
    /\ cancelled' = TRUE
    /\ UNCHANGED << pc, fetchVars, pipeVars, segVars, pageVars >>

SpecCancel == Init /\ [][Next \/ Cancel]_vars

(* C21: once the job has been cancelled, the running fetch issues no further
   HTTP request, performs no further backoff sleep, and takes no further
   rate-limit permit. *)
C21_CancelStopsFetch ==
    [][cancelled => /\ requests' <= requests
                    /\ Len(sleeps') <= Len(sleeps)
                    /\ permits' <= permits]_vars

-----------------------------------------------------------------------------
(* Span boundaries of parse_item *)

(* C22: the span of an emitted item ends at the first occurrence, in the text
   after its header, of the first label in catalog order after it that
   occurs anywhere in that remaining text; a label later in the catalog
   that occurs earlier in the text does not end the span. *)
C22_EndAtFirstLabelInCatalogOrder ==
    (pc \in {"parse", "extract_done"} /\ i > 1 /\ JustEmitted) =>
        LET r == results[Len(results)]
            header_end == HeaderEnd(text, r.start_pos,
                                    adjust_item_pattern(r.item_number))
            rest == Slice(text, header_end, Len(text))
            next_items == SubSeq(items_list, i, Len(items_list))
            present == {k \in 1..Len(next_items) :
                search(rest, adjust_item_pattern(next_items[k]), 0) # -1}
        IN  present # {} =>
              r.end_pos = header_end
                 + search(rest, adjust_item_pattern(next_items[Least(present)]), 0)

\* an item was emitted whose span contains the header of a label that
\* comes later in the catalog than the label that ends the span
C22_Witness ==
    /\ pc \in {"parse", "extract_done"} /\ i > 1 /\ JustEmitted
    /\ LET r == results[Len(results)]
           header_end == HeaderEnd(text, r.start_pos,
                                   adjust_item_pattern(r.item_number))
           rest == Slice(text, header_end, Len(text))
           next_items == SubSeq(items_list, i, Len(items_list))
           present == {k \in 1..Len(next_items) :
               search(rest, adjust_item_pattern(next_items[k]), 0) # -1}
       IN  \E k \in present :
              /\ k > Least(present)
              /\ header_end + search(rest, adjust_item_pattern(next_items[k]), 0)
                     < r.end_pos

-----------------------------------------------------------------------------
(* Documents of header lines: repeated headers, letter-spaced headers *)

MaxHeaderLines == 5     \* lines of such a document

\* "I T E M 5.02 x" beside the plain header lines and a body line
HeaderLines ==
    {LINE_502, LINE_701, LINE_BODY,
     <<"I", " ", "T", " ", "E", " ", "M", " ", "5", ".", "0", "2", " ", "x">>}

HeaderTexts ==
    {Join(ls) : ls \in UNION {[1..n -> HeaderLines] : n \in 1..MaxHeaderLines}}

InitHeaders ==
    /\ pc = "extract"
    /\ filing \in {f \in Filings : /\ f.filing_type = "8-K"
                                  /\ f.filing_date = OBSOLETE_CUTOFF_DATE
                                  /\ f.cik = CIK_FILER}
    /\ text \in HeaderTexts
    /\ call = "" /\ attempt = 0 /\ permits = 0 /\ requests = 0
    /\ sleeps = << >> /\ response = None /\ fetched = None
    /\ index_url = << >> /\ doc_url = << >> /\ html = None /\ soup = << >>
    /\ items_list = << >> /\ i = 1 /\ last_pos = 0
    /\ results = << >> /\ extracted = << >>
    /\ outcome = [kind |-> "none"]
    /\ ClientIdle

SpecHeaders == InitHeaders /\ [][NextSeg]_vars

(* C23: of the header occurrences of a label at or after the consumed
   offset, the emitted item is the one with the longest span, the span of an
   occurrence that no later label follows running to the end of the text;
   start_pos is the position of that occurrence. *)
C23_LongestSpanKept ==
    (pc \in {"parse", "extract_done"} /\ i > 1 /\ JustEmitted) =>
        LET r == results[Len(results)]
            matches == finditer(text, adjust_item_pattern(r.item_number), 0)
            next_items == SubSeq(items_list, i, Len(items_list))
            candidates == {k \in 1..Len(matches) :
                               matches[k].start >= OffsetBefore}
            end_match(k) == first_end_match(
                Slice(text, matches[k].end, Len(text)), next_items, 1)
            span(k) == IF end_match(k) # -1
                       THEN matches[k].end + end_match(k) - matches[k].start
                       ELSE Len(text) - matches[k].start
        IN  /\ \A k \in candidates : r.end_pos - r.start_pos >= span(k)
            /\ \E k \in candidates : /\ matches[k].start = r.start_pos
                                      /\ span(k) = r.end_pos - r.start_pos

(* C26: after clean_text no line of the text begins with the letters I, T,
   E, M separated by non-newline whitespace and followed by whitespace and
   a digit. *)
C26_NoLetterSpacedHeader ==
    (pc \in {"parse", "extract_done"} /\ items_list # << >>) =>
        \A s \in 0..(Len(text) - 1) :
            (s = 0 \/ At(text, s - 1) = NL) =>
                ~ /\ RxHeaderTail(text, RxHeaderM(text, s - 1)) # -1
                  /\ RxHeaderM(text, s - 1) - RxHeaderI(text, s - 1) > 3

(* C24: an emitted item after whose header no header of a later catalog
   label occurs runs to the end of the text; the consumed offset is then
   the length of the text and no later label is emitted. *)
C24_LastItemTakesRest ==
    \A k \in 1..Len(results) :
        LET r == results[k]
            header_end == HeaderEnd(text, r.start_pos,
                                    adjust_item_pattern(r.item_number))
            rest == Slice(text, header_end, Len(text))
            j == CHOOSE j \in 1..Len(items_list) : items_list[j] = r.item_number
        IN  (\A n \in (j + 1)..Len(items_list) :
                 search(rest, adjust_item_pattern(items_list[n]), 0) = -1)
            => /\ r.end_pos = Len(text)
               /\ last_pos = Len(text)
               /\ k = Len(results)

\* the run is over; its last item is not the last label of the catalog,
\* no later label's header follows its header, and text follows the header
C24_Witness ==
    /\ pc = "extract_done"
    /\ results # << >>
    /\ LET r == results[Len(results)]
           header_end == HeaderEnd(text, r.start_pos,
                                   adjust_item_pattern(r.item_number))
           rest == Slice(text, header_end, Len(text))
           j == CHOOSE j \in 1..Len(items_list) : items_list[j] = r.item_number
       IN  /\ j < Len(items_list)
           /\ \A n \in (j + 1)..Len(items_list) :
                  search(rest, adjust_item_pattern(items_list[n]), 0) = -1
           /\ header_end < Len(text)
           /\ r.end_pos = Len(text)

-----------------------------------------------------------------------------
(* The attempt cap of _request_html *)

(* C25: a fetch issues at most retry_count requests whatever the responses
   are; retries after a throttled response and retries after a timeout
   advance the same attempt counter, so together they never exceed the cap;
   and every step of a running fetch either ends it or brings it nearer to
   its end (the attempts left, twice, plus one while the permit of the
   attempt has not been taken, decrease), so the fetch terminates. *)
C25_AttemptCap ==
    /\ [](/\ requests <= retry_count
          /\ attempt = Len(sleeps)
          /\ attempt <= retry_count)
    /\ [][(pc \in {"acquire", "request"}) =>
            (\/ pc' = "fetch_done"
             \/ /\ pc' \in {"acquire", "request"}
                /\ 2 * (retry_count - attempt')
                       + (IF pc' = "acquire" THEN 1 ELSE 0)
                   < 2 * (retry_count - attempt)
                       + (IF pc = "acquire" THEN 1 ELSE 0))]_vars

\* a fetch ended with its last request, after retries of both kinds
C25_Witness ==
    /\ pc = "fetch_done"
    /\ requests = retry_count
    /\ \E k \in 1..Len(sleeps) : sleeps[k].after = "throttle"
    /\ \E k \in 1..Len(sleeps) : sleeps[k].after = "timeout"
    /\ Len(sleeps) >= retry_count - 1

-----------------------------------------------------------------------------
(* The analysis page (page.tsx) and subscribeToStream (api.ts) *)

MaxEvents == 3      \* events one EventSource delivers
MaxTickers == 2     \* values the ticker of one page takes

serverVars == << cancelled, pc, fetchVars, pipeVars, segVars >>

stageMap ==
    [fetching |-> 0, extracting |-> 1, validating |-> 2, syncing |-> 3,
     reporting |-> 4]

\* The events of a stream.  json: event.data parses as JSON (an error
\* event without it is the connection error of the EventSource itself);
\* stage: the stage an update names.
Events ==
    {e \in [type : {"update"}, json : BOOLEAN,
            stage : DOMAIN stageMap \cup {"unknown"}] :
         e.json \/ e.stage = "unknown"}
    \cup [type : {"complete", "error"}, json : BOOLEAN, stage : {""}]
    \cup {[type |-> "cancelled", json |-> TRUE, stage |-> ""]}

\* an updateStageFromMessage that leaves the earlier stages as they are
updateStageFromMessage_current_only(prev, stage) ==
    [k \in DOMAIN prev |->
        IF stage \in DOMAIN stageMap /\ k = stageMap[stage]
        THEN "processing" ELSE prev[k]]

\* the function passed to setStages, applied to prev
updateStageFromMessage(prev, stage) ==
    LET currentIndex == IF stage \in DOMAIN stageMap THEN stageMap[stage]
                        ELSE -1
    IN  [k \in DOMAIN prev |->
            IF k < currentIndex THEN "completed"
            ELSE IF k = currentIndex THEN "processing"
            ELSE prev[k]]

\* the callbacks the page passes to subscribeToStream
onUpdate(update) ==
    /\ stages' = updateStageFromMessage(stages, update.stage)
    /\ UNCHANGED << isCompletedRef, pageResult, error, isLoading >>

\* an onComplete that forgets setResult
onComplete_without_result(analysisResult) ==
    /\ isCompletedRef' = TRUE
    /\ stages' = [k \in DOMAIN stages |-> "completed"]
    /\ isLoading' = FALSE
    /\ UNCHANGED << pageResult, error >>

onComplete(analysisResult) ==
    /\ isCompletedRef' = TRUE
    /\ pageResult' = <<analysisResult>>
    /\ stages' = [k \in DOMAIN stages |-> "completed"]
    /\ isLoading' = FALSE
    /\ UNCHANGED error

onError(errorMsg) ==
    /\ isCompletedRef' = TRUE
    /\ error' = <<errorMsg>>
    /\ isLoading' = FALSE
    /\ UNCHANGED << pageResult, stages >>

\* listeners that close the EventSource after a complete event only
closes_on_complete_only(type) == type = "complete"

\* the listeners that end with eventSource.close()
closes(type) == type \in {"complete", "cancelled", "error"}

\* api.subscribeToStream: the EventSource is created, the function that
\* closes it is returned and assigned to `cleanup`
subscribeToStream ==
    /\ eventSource' = "open"
    /\ cleanup' = TRUE
    /\ calls' = << >>
    /\ events' = 0

\* The open EventSource delivers an event: its listener runs, and the
\* callback the listener invokes runs with it.
Dispatch ==
    /\ eventSource = "open"
    /\ events < MaxEvents
    /\ \E e \in Events :
        /\ IF e.type = "update" THEN
              IF e.json
              THEN /\ onUpdate(e)
                   /\ calls' = Append(calls, [callback |-> "onUpdate",
                                              arg |-> e.stage])
              ELSE UNCHANGED << calls, isCompletedRef, pageResult, error,
                                isLoading, stages >>
           ELSE IF e.type = "complete" THEN
              IF e.json
              THEN /\ onComplete("result")
                   /\ calls' = Append(calls, [callback |-> "onComplete",
                                              arg |-> "result"])
              ELSE /\ onError("Failed to parse analysis result")
                   /\ calls' = Append(calls, [callback |-> "onError",
                              arg |-> "Failed to parse analysis result"])
           ELSE IF e.type = "cancelled" THEN
              IF onCancelled
              THEN /\ calls' = Append(calls, [callback |-> "onCancelled",
                                              arg |-> ""])
                   /\ UNCHANGED << isCompletedRef, pageResult, error,
                                   isLoading, stages >>
              ELSE /\ onError("Analysis was cancelled")
                   /\ calls' = Append(calls, [callback |-> "onError",
                                              arg |-> "Analysis was cancelled"])
           ELSE
              IF e.json
              THEN /\ onError("Analysis failed")
                   /\ calls' = Append(calls, [callback |-> "onError",
                                              arg |-> "Analysis failed"])
              ELSE /\ onError("Connection error - please try again")
                   /\ calls' = Append(calls, [callback |-> "onError",
                              arg |-> "Connection error - please try again"])
        /\ eventSource' = IF closes(e.type) THEN "closed" ELSE "open"
    /\ events' = events + 1
    /\ UNCHANGED << lifecycle, async, cleanup, onCancelled, jobIdRef,
                    cancel_requests, ticker, serverVars >>

\* startAnalysis after `await api.startAnalysis(ticker)` resolved
StartResolved ==
    /\ async = "start"
    /\ jobIdRef' = <<ticker>>
    /\ \E cached \in BOOLEAN :
          IF cached
          THEN /\ isCompletedRef' = TRUE
               /\ async' = "status"
               /\ UNCHANGED << eventSource, cleanup, calls, events >>
          ELSE /\ subscribeToStream
               /\ async' = "done"
               /\ UNCHANGED isCompletedRef
    /\ UNCHANGED << lifecycle, onCancelled, isLoading, error, pageResult,
                    stages, cancel_requests, ticker, serverVars >>

\* startAnalysis after `await api.getJobStatus(response.job_id)` resolved
StatusResolved ==
    /\ async = "status"
    /\ \E has_result \in BOOLEAN :
          IF has_result
          THEN /\ pageResult' = <<"cached">>
               /\ stages' = [k \in DOMAIN stages |-> "completed"]
               /\ isLoading' = FALSE
               /\ UNCHANGED << eventSource, cleanup, calls, events >>
          ELSE /\ subscribeToStream
               /\ UNCHANGED << pageResult, stages, isLoading >>
    /\ async' = "done"
    /\ UNCHANGED << lifecycle, onCancelled, jobIdRef, isCompletedRef, error,
                    cancel_requests, ticker, serverVars >>

\* one of the two awaited requests is rejected: the catch block
Rejected ==
    /\ async \in {"start", "status"}
    /\ isCompletedRef' = TRUE
    /\ error' = <<"Failed to start analysis">>
    /\ isLoading' = FALSE
    /\ async' = "done"
    /\ UNCHANGED << lifecycle, cleanup, eventSource, onCancelled, jobIdRef,
                    pageResult, stages, cancel_requests, calls, events,
                    ticker, serverVars >>

\* the function the effect returns: if (cleanup) cleanup(); cancelAnalysis()
effect_cleanup ==
    /\ eventSource' = IF cleanup /\ eventSource = "open" THEN "closed"
                      ELSE eventSource
    /\ cancel_requests' = IF jobIdRef # << >> /\ ~isCompletedRef
                          THEN cancel_requests \cup {jobIdRef[1]}
                          ELSE cancel_requests

\* The page is unmounted.  lifecycle records whether an outcome (a result
\* or an error) had been received by then.
Unmount ==
    /\ lifecycle = "shown"
    /\ effect_cleanup
    /\ lifecycle' = IF isLoading THEN "left_early" ELSE "left"
    /\ UNCHANGED << async, cleanup, onCancelled, jobIdRef, isCompletedRef,
                    isLoading, error, pageResult, stages, calls, events,
                    ticker, serverVars >>

\* The ticker changes once startAnalysis of the previous ticker has
\* settled: the effect is cleaned up and runs again.
TickerChange ==
    /\ lifecycle = "shown"
    /\ async = "done"
    /\ ticker < MaxTickers
    /\ effect_cleanup
    /\ cleanup' = FALSE
    /\ async' = "start"
    /\ ticker' = ticker + 1
    /\ UNCHANGED << lifecycle, onCancelled, jobIdRef, isCompletedRef, isLoading,
                    error, pageResult, stages, calls, events, serverVars >>

\* the branches of the page's render, in their order
render ==
    IF error # << >> /\ error[1] # "" THEN "error"
    ELSE IF isLoading /\ pageResult = << >> THEN "progress"
    ELSE IF pageResult = << >> THEN "blank"
    ELSE "result"

\* the page has been mounted and its effect has called startAnalysis()
InitPage ==
    /\ pc = "client"
    /\ filing \in {f \in Filings : /\ f.filing_type = "8-K"
                                  /\ f.filing_date = OBSOLETE_CUTOFF_DATE
                                  /\ f.cik = CIK_FILER}
    /\ call = "" /\ attempt = 0 /\ permits = 0 /\ requests = 0
    /\ sleeps = << >> /\ response = None /\ fetched = None
    /\ index_url = << >> /\ doc_url = << >> /\ html = None /\ soup = << >>
    /\ text = << >> /\ items_list = << >> /\ i = 1 /\ last_pos = 0
    /\ results = << >> /\ extracted = << >>
    /\ outcome = [kind |-> "none"]
    /\ cancelled = FALSE
    /\ lifecycle = "shown" /\ async = "start" /\ cleanup = FALSE
    /\ eventSource = "none" /\ onCancelled = FALSE
    /\ jobIdRef = << >> /\ isCompletedRef = FALSE
    /\ isLoading = TRUE /\ error = << >> /\ pageResult = << >>
    /\ stages = INITIAL_STAGES
    /\ cancel_requests = {} /\ calls = << >> /\ events = 0 /\ ticker = 1

SpecPage ==
    InitPage /\ [][\/ StartResolved
                   \/ StatusResolved
                   \/ Rejected
                   \/ Dispatch
                   \/ Unmount
                   \/ TickerChange]_vars

\* One subscription on its own: subscribeToStream has just returned, to a
\* subscriber that did or did not pass an onCancelled callback.
InitStream ==
    /\ pc = "client"
    /\ filing \in {f \in Filings : /\ f.filing_type = "8-K"
                                  /\ f.filing_date = OBSOLETE_CUTOFF_DATE
                                  /\ f.cik = CIK_FILER}
    /\ call = "" /\ attempt = 0 /\ permits = 0 /\ requests = 0
    /\ sleeps = << >> /\ response = None /\ fetched = None
    /\ index_url = << >> /\ doc_url = << >> /\ html = None /\ soup = << >>
    /\ text = << >> /\ items_list = << >> /\ i = 1 /\ last_pos = 0
    /\ results = << >> /\ extracted = << >>
    /\ outcome = [kind |-> "none"]
    /\ cancelled = FALSE
    /\ lifecycle = "shown" /\ async = "done" /\ cleanup = TRUE
    /\ eventSource = "open" /\ onCancelled \in BOOLEAN
    /\ jobIdRef = <<1>> /\ isCompletedRef = FALSE
    /\ isLoading = TRUE /\ error = << >> /\ pageResult = << >>
    /\ stages = INITIAL_STAGES
    /\ cancel_requests = {} /\ calls = << >> /\ events = 0 /\ ticker = 1

SpecStream == InitStream /\ [][Dispatch \/ Unmount]_vars

-----------------------------------------------------------------------------
(* Properties of the subscription and of the page *)

(* C27: one subscription invokes at most one of onComplete, onCancelled and
   onError; once it has, or once the returned function has been called, the
   EventSource is closed, and a closed EventSource invokes no callback. *)
C27_OneTerminalCallback ==
    /\ [](/\ Cardinality({k \in DOMAIN calls : calls[k].callback
                              \in {"onComplete", "onCancelled", "onError"}}) <= 1
          /\ \A k \in DOMAIN calls :
                 calls[k].callback \in {"onComplete", "onCancelled", "onError"}
                     => k = Len(calls) /\ eventSource = "closed"
          /\ lifecycle \in {"left", "left_early"} => eventSource = "closed")
    /\ [][eventSource = "closed" => calls' = calls /\ eventSource' = "closed"]_vars

\* onCancelled was invoked after an update, and the stream could have
\* delivered more events
C27_Witness ==
    /\ Len(calls) = 2
    /\ calls[1].callback = "onUpdate"
    /\ calls[2].callback = "onCancelled"
    /\ eventSource = "closed"
    /\ events < MaxEvents

(* C28: when the page is left before a result or an error was received, a
   cancel request for the job it started has been sent and the job's
   EventSource is closed: no stream of the page stays open. *)
C28_LeavingCancelsJob ==
    (lifecycle = "left_early" /\ async = "done" /\ eventSource # "none")
        => /\ jobIdRef[1] \in cancel_requests
           /\ eventSource = "closed"

(* C29: after an update of a sequence of updates with non-decreasing stage
   indices, the stage it names is "processing", the stages before it are
   "completed" and the stages after it are "pending"; an update that names
   an unknown stage changes no status. *)
C29_StageStatuses ==
    [][(Len(calls') = Len(calls) + 1
        /\ calls'[Len(calls')].callback = "onUpdate") =>
          LET stage == calls'[Len(calls')].arg
              known == {k \in DOMAIN calls' :
                           /\ calls'[k].callback = "onUpdate"
                           /\ calls'[k].arg \in DOMAIN stageMap}
          IN  IF stage \notin DOMAIN stageMap THEN stages' = stages
              ELSE (\A a, b \in known :
                       a <= b => stageMap[calls'[a].arg] <= stageMap[calls'[b].arg])
                   => \A k \in DOMAIN stages' :
                          stages'[k] = IF k < stageMap[stage] THEN "completed"
                                       ELSE IF k = stageMap[stage] THEN "processing"
                                       ELSE "pending"]_vars

\* three updates: a stage, the same stage again, a later stage
C29_Witness ==
    /\ Len(calls) = 3
    /\ calls[1] = [callback |-> "onUpdate", arg |-> "extracting"]
    /\ calls[2] = [callback |-> "onUpdate", arg |-> "extracting"]
    /\ calls[3] = [callback |-> "onUpdate", arg |-> "syncing"]
    /\ stages[3] = "processing" /\ stages[2] = "completed"
    /\ stages[4] = "pending"

(* C30: when isLoading is false the page has a result or an error, so the
   blank render is never shown; isLoading does not become true again; and
   with an error set the error view is shown, result or no result. *)
C30_NoBlankRender ==
    /\ [](/\ ~isLoading => pageResult # << >> \/ error # << >>
          /\ render # "blank"
          /\ error # << >> => render = "error")
    /\ [][~isLoading => ~isLoading']_vars

\* a result from the first ticker, an error from the second
C30_Witness ==
    /\ ~isLoading
    /\ pageResult # << >>
    /\ error # << >>
    /\ render = "error"

====
